---- MODULE Spec2Model ----
(***************************************************************************)
(* doc_agent: the workflow definition, validation and execution engine.    *)
(*                                                                         *)
(* A WorkflowDef (workflowyaml.py) is built from raw data, validated       *)
(* statically and by one dry run, and then run any number of times.  Each  *)
(* run binds the workflow inputs, seeds a context and executes the steps   *)
(* in declaration order (steps/base.py, steps/dummy.py, steps/llm.py).     *)
(*                                                                         *)
(* Python values are records [t, s]: t is the type tag and s the text of   *)
(* the value as a sequence of atoms.  An atom is a literal piece of text   *)
(* or one reference token @{step.parameter}; literal atoms never contain   *)
(* the characters of a token.                                              *)
(***************************************************************************)
EXTENDS Integers, Sequences, FiniteSets, TLC

\* ------------------------------------------------------------------------
\* Bounds of the model
\* ------------------------------------------------------------------------

\* Longest list of steps of a definition.
MaxSteps == 2

\* Substitutions fill_value may make before the model calls the loop endless.
MaxFill == 4

\* ------------------------------------------------------------------------
\* Values
\* ------------------------------------------------------------------------

Lit(x) == [k |-> "lit", a |-> x, b |-> ""]

Ref(s, p) == [k |-> "ref", a |-> s, b |-> p]

None == [t |-> "none", s |-> <<>>]

Str(atoms) == [t |-> "str", s |-> atoms]

PyInt(txt) == [t |-> "int", s |-> <<Lit(txt)>>]

PyFalse == [t |-> "bool", s |-> <<Lit("False")>>]

PyList == [t |-> "list", s |-> <<Lit("[1]")>>]

\* A dict: its items, a function from keys to values.
PyDict(items) == [t |-> "dict", s |-> <<Lit("{}")>>, items |-> items]

\* str(v)
PyStr(v) == IF v.t = "none" THEN Str(<<Lit("None")>>) ELSE Str(v.s)

\* bool(v), as in `if v:` and `not v`
Truthy(v) ==
  CASE v.t = "none" -> FALSE
    [] v.t = "str" -> v.s # <<>>
    [] v.t = "int" -> v.s # <<Lit("0")>>
    [] v.t = "bool" -> v.s # <<Lit("False")>>
    [] OTHER -> TRUE

\* float(v) of a string succeeds
FloatParses(v) == v.t = "str" /\ v.s \in {<<Lit("0")>>, <<Lit("1")>>}

Min(S) == CHOOSE x \in S : \A y \in S : x <= y

Range(f) == {f[i] : i \in DOMAIN f}

\* The text of one atom and of a sequence of atoms.
AtomText(at) ==
  IF at.k = "lit" THEN at.a ELSE "@{" \o at.a \o "." \o at.b \o "}"

RECURSIVE Text(_)
Text(atoms) ==
  IF atoms = <<>> THEN "" ELSE AtomText(Head(atoms)) \o Text(Tail(atoms))

\* ------------------------------------------------------------------------
\* Exceptions
\* ------------------------------------------------------------------------

NoKey == <<"", "">>

NoExc == [kind |-> "none", what |-> "", step |-> "", key |-> NoKey, avail |-> {}]

Exc(kind, what) ==
  [kind |-> kind, what |-> what, step |-> "", key |-> NoKey, avail |-> {}]

ValueReferenceError(step_name, incorrect_variable, available_variables) ==
  [kind |-> "ValueReferenceError", what |-> "not found", step |-> step_name,
   key |-> incorrect_variable, avail |-> available_variables]

\* str(e)
ExcStr(e) ==
  IF e.kind = "ValueReferenceError"
  THEN Str(<<Lit("Value for "), Lit(e.step), Lit("."), Lit(e.key[1]), Lit("."),
             Lit(e.key[2]), Lit(" not found")>>)
  ELSE IF e.what = "" THEN Str(<<>>)
  ELSE Str(<<Lit(e.what)>>)

\* ------------------------------------------------------------------------
\* Parameter model (types.py)
\* ------------------------------------------------------------------------

Parameter(name, data_type, optional, default, choices) ==
  [name |-> name, data_type |-> data_type, optional |-> optional,
   default |-> default, choices |-> choices, content_type |-> "",
   user_permission |-> "READ_WRITE"]

InputParameter(name, data_type, optional, default, choices, user_permission) ==
  [name |-> name, data_type |-> data_type, optional |-> optional,
   default |-> default, choices |-> choices, content_type |-> "",
   user_permission |-> user_permission]

check_content_type_for_file(p) ==
  IF p.data_type = "FILE" /\ p.content_type = ""
  THEN Exc("ValidationError", "Content type is required for file parameter")
  ELSE NoExc

check_choices_for_option(p) ==
  IF p.data_type = "OPTION" /\ p.choices = {}
  THEN Exc("ValidationError", "Choices are required for option parameter")
  ELSE IF p.data_type = "OPTION" /\ p.default # None /\ p.default \notin p.choices
  THEN Exc("ValidationError", "Default value is not in the list of choices")
  ELSE NoExc

check_value_for_option(p, value) ==
  IF p.data_type = "OPTION" /\ value # None /\ p.choices # {} /\ value \notin p.choices
  THEN Exc("ValidationError", "Value is not in the list of choices")
  ELSE NoExc

\* check_default_value_for_read_only with `== READ_ONLY` for `!= READ_WRITE`.
check_default_value_for_read_onlyOnly(p) ==
  IF p.user_permission = "READ_ONLY" /\ ~Truthy(p.default)
  THEN Exc("ValidationError", "Default value is required for non-writable input")
  ELSE NoExc

check_default_value_for_read_only(p) ==
  IF p.user_permission # "READ_WRITE" /\ ~Truthy(p.default)
  THEN Exc("ValidationError", "Default value is required for non-writable input")
  ELSE NoExc

\* The first of two outcomes that is an exception.
FirstExc(e1, e2) == IF e1 # NoExc THEN e1 ELSE e2

\* The validators pydantic runs when a Parameter holding `value` is built or
\* assigned to (validate_assignment=True): the first that fails raises.
ParameterValidation(p, value) ==
  FirstExc(check_default_value_for_read_only(p),
           FirstExc(check_content_type_for_file(p),
                    FirstExc(check_choices_for_option(p),
                             check_value_for_option(p, value))))

\* The value a Parameter holds after `p.value = value` raised: the `before`
\* validator rejects the assignment before the field is set, the `after`
\* validators once it is set (validate_assignment does not roll back).
AssignedValue(p, old, value) ==
  IF check_default_value_for_read_only(p) # NoExc THEN old ELSE value

get_dry_run_value(p) ==
  IF p.data_type \notin {"STRING", "NUMBER", "BOOLEAN"}
  THEN [exc |-> Exc("AssertionError", ""), value |-> None]
  ELSE [exc |-> NoExc,
        value |-> CASE p.data_type = "STRING" -> Str(<<Lit("dummy")>>)
                    [] p.data_type = "NUMBER" -> PyInt("0")
                    [] OTHER -> PyFalse]

Checked(errors) == [exc |-> NoExc, errors |-> errors]

\* value_validation: the list of errors (as a sequence of messages), or the
\* TypeError float() raises for a value that is neither a number nor a string.
value_validation(p, value) ==
  IF value = None
  THEN Checked(IF p.optional THEN <<>> ELSE <<"Parameter is required">>)
  ELSE IF p.data_type = "STRING"
  THEN Checked(IF value.t = "str" THEN <<>> ELSE <<"expected string">>)
  ELSE IF p.data_type = "NUMBER" /\ value.t \notin {"int", "bool"}
  THEN IF value.t = "str"
       THEN Checked(IF FloatParses(value) THEN <<>> ELSE <<"expected number">>)
       ELSE [exc |-> Exc("TypeError", "float() argument must be a string or a real number"),
             errors |-> <<>>]
  ELSE Checked(<<>>)

\* ------------------------------------------------------------------------
\* Step types (steps/dummy.py, steps/llm.py, steps/base.py, steps/__init__.py)
\* ------------------------------------------------------------------------

\* The aliases of the registry; each step type has one alias, its own name.
registered_steps == {"dummy", "llm"}

ClassName(cls) ==
  CASE cls = "dummy" -> "DummyStep" [] cls = "llm" -> "LLMStep" [] OTHER -> "BaseStep"

\* The declared inputs of a step class; BaseStep ("base") declares none.
input_parameters(cls) ==
  CASE cls = "dummy" ->
         <<Parameter("input", "STRING", FALSE, None, {})>>
    [] cls = "llm" ->
         <<Parameter("prompt", "STRING", FALSE, None, {}),
           Parameter("model", "OPTION", FALSE, Str(<<Lit("gpt-4o")>>),
                     {Str(<<Lit("gpt-4o")>>), Str(<<Lit("gpt-4o-mini")>>)}),
           Parameter("chat_history", "BOOLEAN", TRUE, PyFalse, {}),
           Parameter("system_message", "STRING", TRUE, Str(<<>>), {}),
           Parameter("output_names", "OUTPUT", TRUE, Str(<<>>), {})>>
    [] OTHER -> <<>>

\* The names of the declared outputs (each a STRING Parameter).
output_parameters(cls) ==
  CASE cls = "dummy" -> <<"output">> [] cls = "llm" -> <<"result">> [] OTHER -> <<>>

allow_dynamic_outputs(cls) == cls = "llm"

Names(params) == {params[i].name : i \in DOMAIN params}

\* A sequence without its repeated elements, first occurrences kept (the
\* keys of a dict built from the sequence).
RECURSIVE Dedup(_)
Dedup(q) ==
  IF q = <<>> THEN <<>>
  ELSE IF q[Len(q)] \in Range(SubSeq(q, 1, Len(q) - 1))
  THEN Dedup(SubSeq(q, 1, Len(q) - 1))
  ELSE Append(Dedup(SubSeq(q, 1, Len(q) - 1)), q[Len(q)])

RECURSIVE SplitComma(_)
SplitAt(atoms, i) ==
  <<SubSeq(atoms, 1, i - 1)>> \o SplitComma(SubSeq(atoms, i + 1, Len(atoms)))

\* text.split(","): the pieces between the commas.
SplitComma(atoms) ==
  IF \A i \in DOMAIN atoms : atoms[i] # Lit(",") THEN <<atoms>>
  ELSE SplitAt(atoms, Min({i \in DOMAIN atoms : atoms[i] = Lit(",")}))

\* text.strip()
RECURSIVE Strip(_)
Strip(atoms) ==
  IF atoms # <<>> /\ Head(atoms) = Lit(" ") THEN Strip(Tail(atoms))
  ELSE IF atoms # <<>> /\ atoms[Len(atoms)] = Lit(" ")
  THEN Strip(SubSeq(atoms, 1, Len(atoms) - 1))
  ELSE atoms

\* [name.strip() for name in text.split(",")]
SplitNames(atoms) ==
  [i \in DOMAIN SplitComma(atoms) |-> Text(Strip(SplitComma(atoms)[i]))]

\* A step instance nobody has created yet.
\* A step instance: name, class, the value of each input, the names of the
\* outputs and their values, self.context, and the keys of the run context
\* the instance assigned while they held a value already.
NoStep ==
  [name |-> "", cls |-> "", inputs |-> <<>>, outputs |-> <<>>, ovals |-> <<>>,
   context |-> PyDict(<<>>), rewrote |-> {}]

Raised(e) == [exc |-> e, step |-> NoStep]

\* BaseStep.__init__, `set the input values`: what binding input p raises.
BindInputExc(p, kwargs) ==
  IF p.name \in DOMAIN kwargs
  THEN ParameterValidation(p, kwargs[p.name])
  ELSE IF ~p.optional
  THEN Exc("ValueError", "Missing required input parameter")
  ELSE NoExc

BindInputValue(p, kwargs) ==
  IF p.name \in DOMAIN kwargs THEN kwargs[p.name] ELSE p.default

ParamNamed(params, k) == CHOOSE q \in Range(params) : q.name = k

\* BaseStepBind without `validation: no duplicate names in inputs and outputs`.
BaseStepBindAny(cls, name, kwargs, ips, outs, bad) ==
  IF bad # {}
  THEN Raised(BindInputExc(ips[Min(bad)], kwargs))
  ELSE [exc |-> NoExc,
        step |-> [name |-> name, cls |-> cls,
                  inputs |-> [k \in Names(ips) |->
                                BindInputValue(ParamNamed(ips, k), kwargs)],
                  outputs |-> outs,
                  ovals |-> [k \in Range(outs) |-> None],
                  context |-> IF "context" \in DOMAIN kwargs
                              THEN kwargs["context"] ELSE PyDict(<<>>),
                  rewrote |-> {}]]

\* BaseStep.__init__ with the output names and the inputs that fail to bind.
BaseStepBind(cls, name, kwargs, ips, outs, bad) ==
  IF bad # {}
  THEN Raised(BindInputExc(ips[Min(bad)], kwargs))
  ELSE IF Names(ips) \cap Range(outs) # {}
  THEN Raised(Exc("ValueError", "Duplicate parameter name"))
  ELSE [exc |-> NoExc,
        step |-> [name |-> name, cls |-> cls,
                  inputs |-> [k \in Names(ips) |->
                                BindInputValue(ParamNamed(ips, k), kwargs)],
                  outputs |-> outs,
                  ovals |-> [k \in Range(outs) |-> None],
                  context |-> IF "context" \in DOMAIN kwargs
                              THEN kwargs["context"] ELSE PyDict(<<>>),
                  rewrote |-> {}]]

InputsThatFail(ips, kwargs) ==
  {i \in DOMAIN ips : BindInputExc(ips[i], kwargs) # NoExc}

\* BaseStep.__init__
BaseStepInit(cls, name, output_names, kwargs) ==
  BaseStepBind(cls, name, kwargs, input_parameters(cls),
               IF allow_dynamic_outputs(cls) /\ output_names # <<>>
               THEN Dedup(output_names) ELSE output_parameters(cls),
               InputsThatFail(input_parameters(cls), kwargs))

Without(kwargs, k) == [j \in DOMAIN kwargs \ {k} |-> kwargs[j]]

\* LLMStep.__init__ when output_names is among the keyword inputs.
LLMStepInitNames(name, v, rest) ==
  IF Truthy(v) /\ v.t # "str"
  THEN Raised(Exc("AttributeError", "object has no attribute 'split'"))
  ELSE BaseStepInit("llm", name, IF Truthy(v) THEN SplitNames(v.s) ELSE <<>>, rest)

\* LLMStep.__init__: takes output_names out of the keyword inputs.
LLMStepInit(name, kwargs) ==
  IF "output_names" \in DOMAIN kwargs
  THEN LLMStepInitNames(name, kwargs["output_names"], Without(kwargs, "output_names"))
  ELSE BaseStepInit("llm", name, <<>>, kwargs)

\* step_class(name, **inputs)
NewStep(cls, name, kwargs) ==
  IF cls = "llm" THEN LLMStepInit(name, kwargs)
  ELSE BaseStepInit(cls, name, <<>>, kwargs)

\* The classes a step instance is made of.
StepClasses == registered_steps \cup {"base"}

\* The class attributes input_parameters and output_parameters of a step
\* class: the value each declared input Parameter holds, and the names of the
\* declared outputs.
ClassSchema(cls) ==
  [values |-> [k \in Names(input_parameters(cls)) |-> None],
   outputs |-> output_parameters(cls)]

\* The class attributes when __init__ binds the class's own Parameter
\* objects and assigns the output names to the class.
ClassAttributesShared(schema, step) ==
  IF step.cls \in DOMAIN schema
  THEN [schema EXCEPT ![step.cls] = [values |-> step.inputs, outputs |-> step.outputs]]
  ELSE schema

\* The class attributes after an instance of the class was constructed or
\* run: self.inputs and self.outputs hold deep copies of the class's
\* Parameter objects and dynamic outputs are assigned to
\* self.output_parameters, so every assignment goes to the instance.
ClassAttributes(schema, step) == schema

RECURSIVE ClassAttributesAll(_, _, _)
ClassAttributesAll(schema, steps, i) ==
  IF i > Len(steps) THEN schema
  ELSE ClassAttributesAll(ClassAttributes(schema, steps[i]), steps, i + 1)

\* ------------------------------------------------------------------------
\* Variable resolution (steps/base.py, fill_value)
\* ------------------------------------------------------------------------

\* context.get(key)
CtxGet(context, key) == IF key \in DOMAIN context THEN context[key] ELSE None

\* context[key] = value
CtxPut(context, key, value) == (key :> value) @@ context

\* value_str.replace(token, text): every occurrence of the token's text.
RECURSIVE Replace(_, _, _)
Replace(atoms, token, text) ==
  IF atoms = <<>> THEN <<>>
  ELSE (IF Head(atoms) = token THEN text ELSE <<Head(atoms)>>)
       \o Replace(Tail(atoms), token, text)

Filled(value) == [exc |-> NoExc, value |-> value, hang |-> FALSE]

\* re.search: the first reference token of the text.
FirstToken(atoms) == atoms[Min({i \in DOMAIN atoms : atoms[i].k = "ref"})]

RECURSIVE fill_loop(_, _, _, _)
\* fill_token with context.get(key, ""): a key the context lacks reads as "".
fill_tokenLenient(atoms, context, current_step_name, fuel, token, value) ==
  IF fuel = 0 THEN [exc |-> NoExc, value |-> None, hang |-> TRUE]
  ELSE fill_loop(Replace(atoms, token, IF value = None THEN <<>> ELSE PyStr(value).s),
                 context, current_step_name, fuel - 1)

\* One turn of the loop of fill_value, for its match and the context's value.
fill_token(atoms, context, current_step_name, fuel, token, value) ==
  IF value = None
  THEN [exc |-> ValueReferenceError(current_step_name, <<token.a, token.b>>,
                                    DOMAIN context),
        value |-> None, hang |-> FALSE]
  ELSE IF fuel = 0 THEN [exc |-> NoExc, value |-> None, hang |-> TRUE]
  ELSE fill_loop(Replace(atoms, token, PyStr(value).s), context,
                 current_step_name, fuel - 1)

fill_match(atoms, context, current_step_name, fuel, token) ==
  fill_token(atoms, context, current_step_name, fuel, token,
             CtxGet(context, <<token.a, token.b>>))

fill_loop(atoms, context, current_step_name, fuel) ==
  IF \A i \in DOMAIN atoms : atoms[i].k # "ref" THEN Filled(Str(atoms))
  ELSE fill_match(atoms, context, current_step_name, fuel, FirstToken(atoms))

fill_value(value, context, current_step_name) ==
  IF value.t # "str" THEN Filled(value)
  ELSE fill_loop(value.s, context, current_step_name, MaxFill)

\* ------------------------------------------------------------------------
\* Step execution (steps/base.py BaseStep.run and the process of each type)
\* ------------------------------------------------------------------------

\* What the LLM provider may do when it is called.
LLMBehaviours == {"text", "raise", "json_all", "json_some", "json_list"}

Completion == Str(<<Lit("completion")>>)

Answer == Str(<<Lit("answer")>>)

NameValue(name, value) == [name |-> name, value |-> value]

\* What process did: the dict it returned (isdict: it is a dict), or what it
\* raised; external: it called the provider.
Returned(result, external) ==
  [exc |-> NoExc, result |-> result, isdict |-> TRUE, external |-> external]

ProcessRaised(e, external) ==
  [exc |-> e, result |-> <<>>, isdict |-> TRUE, external |-> external]

DummyStep_process(step, dry_run) ==
  IF step.inputs["input"] = None
  THEN ProcessRaised(Exc("ValueError", "Input is not provided"), FALSE)
  ELSE Returned(<<NameValue("output", step.inputs["input"])>>, FALSE)

\* {name: value for name in self.outputs.keys()}
AllOutputs(names, value) == [i \in DOMAIN names |-> NameValue(names[i], value)]

\* f"This is the {name} of the LLM Dry Run".  No token can name an output
\* whose name is itself a token, so this text is never scanned for tokens.
DryRunText(name) ==
  Str(<<Lit("This is the "), Lit(name), Lit(" of the LLM Dry Run")>>)

\* The placeholder results of a dry run, one for each output.
DryRunOutputs(names) ==
  [i \in DOMAIN names |-> NameValue(names[i], DryRunText(names[i]))]

\* LLMStep.process after `client = OpenAI()`; llm is what the provider does.
LLMStep_call(names, llm) ==
  IF llm = "raise"
  THEN ProcessRaised(Exc("ProviderError", "the provider call failed"), TRUE)
  ELSE IF Len(names) <= 1
  THEN Returned(<<NameValue("result", Completion)>>, TRUE)
  ELSE CASE llm = "json_all" -> Returned(AllOutputs(names, Answer), TRUE)
         [] llm = "json_some" ->
              Returned(<<NameValue(names[1], Answer), NameValue("extra", Answer)>>, TRUE)
         [] llm = "json_list" ->
              [exc |-> NoExc, result |-> <<>>, isdict |-> FALSE, external |-> TRUE]
         [] OTHER -> Returned(AllOutputs(names, Completion), TRUE)

\* LLMStep.process without `if dry_run`: it calls the provider in every mode.
LLMStep_processLive(step, dry_run, llm) ==
  IF step.inputs["prompt"] = None
  THEN ProcessRaised(Exc("ValueError", "Prompt is not provided"), FALSE)
  ELSE IF step.inputs["model"] = None
  THEN ProcessRaised(Exc("ValueError", "Model is not provided"), FALSE)
  ELSE LLMStep_call(step.outputs, llm)

LLMStep_process(step, dry_run, llm) ==
  IF step.inputs["prompt"] = None
  THEN ProcessRaised(Exc("ValueError", "Prompt is not provided"), FALSE)
  ELSE IF step.inputs["model"] = None
  THEN ProcessRaised(Exc("ValueError", "Model is not provided"), FALSE)
  ELSE IF dry_run
  THEN Returned(DryRunOutputs(step.outputs), FALSE)
  ELSE LLMStep_call(step.outputs, llm)

BaseStep_process(step, dry_run) ==
  ProcessRaised(Exc("NotImplementedError", ""), FALSE)

process(step, dry_run, llm) ==
  CASE step.cls = "dummy" -> DummyStep_process(step, dry_run)
    [] step.cls = "llm" -> LLMStep_process(step, dry_run, llm)
    [] OTHER -> BaseStep_process(step, dry_run)

Resolved(e, hang, step, context) ==
  [exc |-> e, hang |-> hang, step |-> step, context |-> context]

\* AssignInput without context[f"{self.name}.{k}"] = v.value.
AssignInputLocal(step, context, p, r) ==
  IF r.hang THEN Resolved(NoExc, TRUE, step, context)
  ELSE IF r.exc # NoExc THEN Resolved(r.exc, FALSE, step, context)
  ELSE IF ParameterValidation(p, r.value) # NoExc
  THEN Resolved(ParameterValidation(p, r.value), FALSE,
                [step EXCEPT !.inputs[p.name] = AssignedValue(p, @, r.value)],
                context)
  ELSE Resolved(NoExc, FALSE, [step EXCEPT !.inputs[p.name] = r.value], context)

\* v.value = fill_value(...); context[f"{self.name}.{k}"] = v.value
AssignInput(step, context, p, r) ==
  IF r.hang THEN Resolved(NoExc, TRUE, step, context)
  ELSE IF r.exc # NoExc THEN Resolved(r.exc, FALSE, step, context)
  ELSE IF ParameterValidation(p, r.value) # NoExc
  THEN Resolved(ParameterValidation(p, r.value), FALSE,
                [step EXCEPT !.inputs[p.name] = AssignedValue(p, @, r.value)],
                context)
  ELSE Resolved(NoExc, FALSE,
                [step EXCEPT !.inputs[p.name] = r.value,
                             !.rewrote = @ \cup ({<<step.name, p.name>>}
                                                  \cap DOMAIN context)],
                CtxPut(context, <<step.name, p.name>>, r.value))

ResolveInput(step, context, p) ==
  IF step.inputs[p.name] = None THEN Resolved(NoExc, FALSE, step, context)
  ELSE AssignInput(step, context, p,
                   fill_value(step.inputs[p.name], context, step.name))

RECURSIVE ResolveInputs(_, _, _)
ResolveRest(done, i) ==
  IF done.hang \/ done.exc # NoExc THEN done
  ELSE ResolveInputs(done.step, done.context, i)

\* BaseStep.run, `fill the input values`: inputs i.. of the step, in order.
ResolveInputs(step, context, i) ==
  IF i > Len(input_parameters(step.cls)) THEN Resolved(NoExc, FALSE, step, context)
  ELSE ResolveRest(ResolveInput(step, context, input_parameters(step.cls)[i]), i + 1)

RECURSIVE PublishOutputs(_, _, _)
\* PublishOutputs without `if k in self.outputs`: every key process returned
\* is published.
PublishOutputsAll(step, context, result) ==
  IF result = <<>> THEN [step |-> step, context |-> context]
  ELSE PublishOutputs(step,
                      CtxPut(context, <<step.name, Head(result).name>>,
                             Head(result).value),
                      Tail(result))

\* BaseStep.run, `update the context with the output values`.
PublishOutputs(step, context, result) ==
  IF result = <<>> THEN [step |-> step, context |-> context]
  ELSE IF Head(result).name \in Range(step.outputs)
  THEN PublishOutputs([step EXCEPT !.ovals[Head(result).name] = Head(result).value,
                                   !.rewrote = @ \cup ({<<step.name, Head(result).name>>}
                                                        \cap DOMAIN context)],
                      CtxPut(context, <<step.name, Head(result).name>>,
                             Head(result).value),
                      Tail(result))
  ELSE PublishOutputs(step, context, Tail(result))

InputValues(step, ips) ==
  [i \in DOMAIN ips |-> NameValue(ips[i].name, step.inputs[ips[i].name])]

\* The inputs of a step whose value is not None, in declaration order.
BoundInputs(step) ==
  SelectSeq(InputValues(step, input_parameters(step.cls)), LAMBDA nv : nv.value # None)

WorkflowStepResult(step_name, step_type, status, status_reason, inputs, outputs) ==
  [step_name |-> step_name, step_type |-> step_type, status |-> status,
   status_reason |-> status_reason, inputs |-> inputs, outputs |-> outputs]

NoResult == WorkflowStepResult("", "", "", <<>>, <<>>, <<>>)

\* What BaseStep.run did.  exc: what it raised to its caller; caught: what its
\* try block raised; res: the WorkflowStepResult it returned; processed:
\* process was invoked; external: process called the provider.
Outcome(hang, caught_, exc_, res, step, context, processed_, external_) ==
  [hang |-> hang, caught |-> caught_, exc |-> exc_, res |-> res, step |-> step,
   context |-> context, processed |-> processed_, external |-> external_]

\* The except block without `if dry_run`: it raises in every mode.
run_exceptRaise(step, context, e, dry_run, processed_, external_) ==
  Outcome(FALSE, e, e, NoResult, step, context, processed_, external_)

\* The except block without `raise e`: a FAILURE result in every mode.
run_exceptConvert(step, context, e, dry_run, processed_, external_) ==
  Outcome(FALSE, e, NoExc,
          WorkflowStepResult(step.name, ClassName(step.cls), "FAILURE", <<>>,
                             BoundInputs(step), <<NameValue("error", ExcStr(e))>>),
          step, context, processed_, external_)

\* `except Exception as e`: raise in a dry run, a FAILURE result otherwise.
run_except(step, context, e, dry_run, processed_, external_) ==
  IF dry_run
  THEN Outcome(FALSE, e, e, NoResult, step, context, processed_, external_)
  ELSE Outcome(FALSE, e, NoExc,
               WorkflowStepResult(step.name, ClassName(step.cls), "FAILURE", <<>>,
                                  BoundInputs(step),
                                  <<NameValue("error", ExcStr(e))>>),
               step, context, processed_, external_)

\* The try block after process returned a dict.
run_publish(step, pub, result, external_) ==
  Outcome(FALSE, NoExc, NoExc,
          WorkflowStepResult(step.name, ClassName(step.cls), "SUCCESS", <<>>,
                             BoundInputs(step),
                             SelectSeq(result, LAMBDA nv : nv.name \in Range(step.outputs))),
          pub.step, pub.context, TRUE, external_)

\* The try block after process.
run_processed(step, context, pr, dry_run) ==
  IF pr.exc # NoExc THEN run_except(step, context, pr.exc, dry_run, TRUE, pr.external)
  ELSE IF ~pr.isdict
  THEN run_except(step, context, Exc("AttributeError", "object has no attribute 'items'"),
                  dry_run, TRUE, pr.external)
  ELSE run_publish(step, PublishOutputs(step, context, pr.result), pr.result,
                   pr.external)

\* run_resolved when process is invoked whatever the filling of the inputs
\* raised.
run_resolvedAnyway(rin, dry_run, llm) ==
  IF rin.hang
  THEN Outcome(TRUE, NoExc, NoExc, NoResult, rin.step, rin.context, FALSE, FALSE)
  ELSE run_processed(rin.step, rin.context, process(rin.step, dry_run, llm), dry_run)

\* The try block after the inputs are filled.
run_resolved(rin, dry_run, llm) ==
  IF rin.hang
  THEN Outcome(TRUE, NoExc, NoExc, NoResult, rin.step, rin.context, FALSE, FALSE)
  ELSE IF rin.exc # NoExc
  THEN run_except(rin.step, rin.context, rin.exc, dry_run, FALSE, FALSE)
  ELSE run_processed(rin.step, rin.context, process(rin.step, dry_run, llm), dry_run)

\* context.update(self.context)
Updated(step, context) ==
  [step |-> [step EXCEPT !.rewrote = DOMAIN step.context.items \cap DOMAIN context],
   context |-> step.context.items @@ context]

\* BaseStep.run after context.update.
run_updated(u, dry_run, llm) ==
  run_resolved(ResolveInputs(u.step, u.context, 1), dry_run, llm)

\* BaseStep.run; update of a context that is no dict raises before the try
\* block.
BaseStep_run(step, context, dry_run, llm) ==
  IF step.context.t # "dict"
  THEN Outcome(FALSE, NoExc, Exc("TypeError", "object is not iterable"), NoResult,
               step, context, FALSE, FALSE)
  ELSE run_updated(Updated(step, context), dry_run, llm)

\* ------------------------------------------------------------------------
\* Workflow definitions (workflowyaml.py)
\* ------------------------------------------------------------------------

Hello == Str(<<Lit("Hello")>>)

GPT == Str(<<Lit("gpt-4o")>>)

\* A step of a definition: name, type, inputs, and `fields`, the other keys
\* the step carries.
RawStep(name, type, inputs) ==
  [name |-> name, type |-> type, inputs |-> inputs, fields |-> {}]

WithFields(raw, fields) == [raw EXCEPT !.fields = fields]

\* data.get("skip_validation", False) of WorkflowStep.__init__: the step's own
\* key, or the flag WorkflowDef.__init__ wrote into the step.
StepSkip(raw, skip_validation) ==
  skip_validation \/ "skip_validation" \in raw.fields

LLMInputs == ("prompt" :> Hello) @@ ("model" :> GPT)

\* The first step a definition may declare.
FirstSteps ==
  << RawStep("s1", "dummy", "input" :> Hello),
     RawStep("s1", "llm", LLMInputs),
     RawStep("s1", "llm", LLMInputs @@ ("output_names" :> Str(<<Lit("summary")>>))),
     RawStep("s1", "llm",
             LLMInputs @@ ("output_names" :>
                             Str(<<Lit("summary"), Lit(","), Lit(" "), Lit("keywords")>>))),
     RawStep("s1", "llm", LLMInputs @@ ("output_names" :> Str(<<Ref("s2", "input")>>))),
     RawStep("input", "dummy", "input" :> Hello) >>

\* The steps it may declare after the first.
LaterSteps ==
  << RawStep("s2", "dummy", "input" :> Str(<<Ref("s1", "output")>>)),
     RawStep("s2", "dummy", "input" :> Str(<<Ref("s1", "summary")>>)),
     RawStep("s2", "dummy", "input" :> Str(<<Lit("got "), Ref("input", "x")>>)),
     RawStep("s2", "dummy", <<>>),
     RawStep("s1", "dummy", "input" :> Str(<<Lit("again")>>)),
     RawStep("s2", "dummy",
             ("input" :> Hello)
             @@ ("context" :> PyDict(<<"input", "x">> :> Str(<<Lit("z")>>)))) >>

StepChoices(j) == IF j = 1 THEN FirstSteps ELSE LaterSteps

D == Str(<<Lit("d")>>)

\* The lists of workflow inputs a definition declares.
InputChoices ==
  << <<>>,
     <<InputParameter("x", "STRING", FALSE, None, {}, "READ_WRITE")>>,
     <<InputParameter("x", "STRING", TRUE, None, {}, "READ_WRITE")>>,
     <<InputParameter("x", "STRING", FALSE, D, {}, "READ_ONLY")>>,
     <<InputParameter("x", "NUMBER", FALSE, None, {}, "READ_WRITE")>>,
     <<InputParameter("x", "OPTION", FALSE, D, {D, Str(<<Lit("e")>>)}, "READ_WRITE")>> >>

\* The values a caller passes for a workflow input.
RunValues == <<D, Str(<<Lit("y")>>), Str(<<Ref("input", "x")>>), PyInt("1"), PyList>>

\* A definition: skip_validation is the keyword argument (a key of the
\* key/value tree); `fields` are the keys of the YAML text other than name,
\* description, inputs, steps and layout_attributes.
WorkflowDef(inputs, steps, skip_validation) ==
  [inputs |-> inputs, steps |-> steps, skip_validation |-> skip_validation,
   fields |-> {}]

YamlFields(w, fields) == [w EXCEPT !.fields = fields]

\* self.model_fields.keys() of WorkflowDef
WorkflowFields ==
  {"name", "description", "inputs", "steps", "layout_attributes", "skip_validation"}

\* self.skip_validation, the field validate_dry_run reads.
SkipField(w) == w.skip_validation \/ "skip_validation" \in w.fields

Nope == Str(<<Ref("s9", "nope")>>)

Dummy1 == RawStep("s1", "dummy", "input" :> Hello)

\* Definitions with keys beyond the declared ones, with a step type the
\* registry lacks, with colliding input and output names, with an input that
\* fails to resolve after others resolved, and with workflow inputs that
\* miss a default, choices or a placeholder, or whose default is a token.
ExtraDefinitions ==
  << WorkflowDef(<<>>, <<WithFields(Dummy1, {"foo"})>>, FALSE),
     WorkflowDef(<<>>, <<WithFields(Dummy1, {"description"})>>, FALSE),
     WorkflowDef(<<>>, <<WithFields(RawStep("s1", "dummy",
                                            ("input" :> Hello) @@ ("bogus" :> Hello)),
                                    {"skip_validation"})>>, FALSE),
     WorkflowDef(<<>>, <<WithFields(RawStep("s1", "dummy", <<>>),
                                    {"skip_validation"})>>, FALSE),
     YamlFields(WorkflowDef(<<>>, <<Dummy1>>, FALSE), {"foo"}),
     YamlFields(WorkflowDef(<<>>, <<Dummy1>>, TRUE), {"foo"}),
     YamlFields(WorkflowDef(<<>>, <<RawStep("s1", "dummy", "input" :> Nope)>>, FALSE),
                {"skip_validation"}),
     YamlFields(WorkflowDef(<<>>, <<RawStep("s1", "dummy", <<>>)>>, FALSE),
                {"skip_validation"}),
     YamlFields(WorkflowDef(<<>>, <<Dummy1>>, FALSE), {"foo", "skip_validation"}),
     WorkflowDef(<<>>, <<RawStep("s1", "nope", "input" :> Hello)>>, FALSE),
     WorkflowDef(<<>>, <<RawStep("s1", "nope", "input" :> Hello)>>, TRUE),
     WorkflowDef(<<>>, <<RawStep("s1", "llm",
                                 LLMInputs @@ ("output_names" :> Str(<<Lit("prompt")>>)))>>,
                 FALSE),
     WorkflowDef(<<>>, <<RawStep("s1", "llm",
                                 LLMInputs @@ ("output_names" :> Str(<<Lit("prompt")>>)))>>,
                 TRUE),
     WorkflowDef(<<>>, <<RawStep("s1", "llm", LLMInputs @@ ("system_message" :> Nope))>>,
                 FALSE),
     WorkflowDef(<<>>, <<RawStep("s1", "llm", LLMInputs @@ ("system_message" :> Nope))>>,
                 TRUE),
     WorkflowDef(<<InputParameter("x", "STRING", FALSE, None, {}, "READ_ONLY")>>,
                 <<Dummy1>>, FALSE),
     WorkflowDef(<<InputParameter("x", "STRING", FALSE, None, {}, "NO_ACCESS")>>,
                 <<Dummy1>>, TRUE),
     WorkflowDef(<<InputParameter("x", "STRING", FALSE, D, {}, "NO_ACCESS")>>,
                 <<Dummy1>>, FALSE),
     WorkflowDef(<<InputParameter("x", "OPTION", FALSE, None, {}, "READ_WRITE")>>,
                 <<Dummy1>>, TRUE),
     WorkflowDef(<<InputParameter("x", "OPTION", FALSE, Str(<<Lit("y")>>),
                                  {D, Str(<<Lit("e")>>)}, "READ_WRITE")>>,
                 <<Dummy1>>, TRUE),
     WorkflowDef(<<InputParameter("x", "MARKDOWN", FALSE, None, {}, "READ_WRITE")>>,
                 <<Dummy1>>, FALSE),
     WorkflowDef(<<InputParameter("x", "STRING", FALSE, Str(<<Ref("s1", "output")>>),
                                  {}, "READ_WRITE")>>,
                 <<Dummy1,
                   RawStep("s2", "dummy", "input" :> Str(<<Lit("got "), Ref("input", "x")>>))>>,
                 FALSE) >>

NoError == [kind |-> "none", step |-> "", key |-> NoKey, avail |-> {}, what |-> ""]

SchemaError(kind, step, what) ==
  [kind |-> kind, step |-> step, key |-> NoKey, avail |-> {}, what |-> what]

\* validate_input, `check for missing fields` and `check for extra fields`.
validate_input(raw, ips) ==
  IF \E i \in DOMAIN ips : ips[i].name \notin DOMAIN raw.inputs /\ ~ips[i].optional
  THEN SchemaError("missing_input", raw.name,
                   ips[Min({i \in DOMAIN ips : ips[i].name \notin DOMAIN raw.inputs
                                                 /\ ~ips[i].optional})].name)
  ELSE IF DOMAIN raw.inputs \ Names(ips) # {}
  THEN SchemaError("extra_input", raw.name, "")
  ELSE NoError

\* validate_step with validate_type under `if not self.skip_validation`.
validate_stepSkipType(raw, skip_validation) ==
  IF ~skip_validation /\ raw.type \notin registered_steps
  THEN SchemaError("invalid_step_type", raw.name, raw.type)
  ELSE IF raw.name = "input"
  THEN SchemaError("reserved_step_name", raw.name, raw.name)
  ELSE IF skip_validation THEN NoError
  ELSE validate_input(raw, input_parameters(raw.type))

\* WorkflowStep: validate_type, validate_name, validate_input.
validate_step(raw, skip_validation) ==
  IF raw.type \notin registered_steps
  THEN SchemaError("invalid_step_type", raw.name, raw.type)
  ELSE IF raw.name = "input"
  THEN SchemaError("reserved_step_name", raw.name, raw.name)
  ELSE IF skip_validation THEN NoError
  ELSE validate_input(raw, input_parameters(raw.type))

\* WorkflowStep.init_input: the instance it binds, or what the step class
\* raises.  A type the registry does not know leaves the step as it is.
init_input(raw, old) ==
  IF raw.type \in registered_steps
  THEN NewStep(raw.type, raw.name, raw.inputs)
  ELSE [exc |-> NoExc, step |-> old]

StepInitError(raw, r) ==
  IF r.exc # NoExc THEN SchemaError("step_init", raw.name, r.exc.what) ELSE NoError

StepValidated(raw, skip_validation, e) ==
  IF e # NoError THEN e
  ELSE IF skip_validation THEN NoError
  ELSE StepInitError(raw, init_input(raw, NoStep))

\* WorkflowStep.__init__: validation, then init_input unless it is skipped.
WorkflowStepError(raw, skip_validation) ==
  StepValidated(raw, skip_validation, validate_step(raw, skip_validation))

\* validate_dry_run: the error construction raises for what the dry run raised.
DryRunError(e) ==
  IF e.kind = "ValueReferenceError"
  THEN [kind |-> "value_reference_error", step |-> e.step, key |-> e.key,
        avail |-> e.avail, what |-> ""]
  ELSE [kind |-> "workflow_error", step |-> "", key |-> NoKey, avail |-> {},
        what |-> e.what]

\* A definition none of whose checks is skipped: skip_validation is neither
\* passed, nor a key of the definition, nor a key of a step.
Validated(w) ==
  /\ ~SkipField(w)
  /\ \A i \in DOMAIN w.steps : ~StepSkip(w.steps[i], FALSE)

\* WorkflowDef.__init__, `if extra fields are present, raise an error`.
ExtraFieldError(w) ==
  IF ~w.skip_validation /\ w.fields \ WorkflowFields # {}
  THEN SchemaError("extra_field", "", CHOOSE k \in w.fields \ WorkflowFields : TRUE)
  ELSE NoError

\* The first of a list of errors that is one.
FirstError(errs) ==
  IF \A i \in DOMAIN errs : errs[i] = NoError THEN NoError
  ELSE errs[Min({i \in DOMAIN errs : errs[i] # NoError})]

ParameterError(p, e) ==
  IF e # NoExc THEN SchemaError("invalid_parameter", p.name, e.what) ELSE NoError

\* The first error of the keys, the inputs and the steps of a definition.
DefinitionError(w) ==
  FirstError(<<ExtraFieldError(w)>>
             \o [i \in DOMAIN w.inputs |->
                   ParameterError(w.inputs[i], ParameterValidation(w.inputs[i], None))]
             \o [i \in DOMAIN w.steps |->
                   WorkflowStepError(w.steps[i],
                                     StepSkip(w.steps[i], w.skip_validation))])

\* ------------------------------------------------------------------------
\* State
\* ------------------------------------------------------------------------

VARIABLES
  wf,          \* the raw definition: inputs, steps, skip_validation
  built,       \* "new", "validating", "ok", "failed"; "direct": no workflow
  cerr,        \* the error construction raised
  pval,        \* the value of each workflow InputParameter
  inst,        \* the step instance bound to each WorkflowStep (_step)
  mode,        \* "dry" or "live": the dry_run argument of the current run
  caller,      \* "ctor": validate_dry_run called run; "user"; "test"
  run_inputs,  \* the run_inputs dict of the current run
  pc,          \* "idle", "bind", "init", "run", "returned", "raised", "hung"
  idx,         \* the step the loop of run is at
  ctx,         \* the context of the current run
  result,      \* the step results of the current run
  status,      \* the status of the current run
  exc,         \* what the current run raised to its caller
  executed,    \* the steps whose BaseStep.run was entered, in order
  processed,   \* the steps whose process was invoked, in order
  caught,      \* what the try block of the last BaseStep.run raised
  external,    \* the steps that called the provider, with the mode
  answers,     \* what the provider answered in the current run, in order
  prev,        \* the outcome of the run the current run repeats, or NoRun
  schema       \* the class attributes of each step class

vars == <<wf, built, cerr, pval, inst, mode, caller, run_inputs, pc, idx, ctx,
          result, status, exc, executed, processed, caught, external, answers,
          prev, schema>>

NoRun == [pc |-> "none", result |-> <<>>, status |-> "", exc |-> NoExc, answers |-> <<>>]

NSteps == Len(wf.steps)

DryRun == mode = "dry"

\* The locals of a run, before its first statement.
RunStart(m, who, inputs) ==
  /\ mode' = m
  /\ caller' = who
  /\ run_inputs' = inputs
  /\ pc' = "bind"
  /\ idx' = 0
  /\ ctx' = <<>>
  /\ result' = <<>>
  /\ status' = "SUCCESS"
  /\ exc' = NoExc
  /\ executed' = <<>>
  /\ processed' = <<>>
  /\ caught' = NoExc
  /\ external' = {}
  /\ answers' = <<>>

InitWorkflow ==
  \E n \in 0..MaxSteps :
    \E pick \in [1..n -> DOMAIN FirstSteps] :
      \E i \in DOMAIN InputChoices :
        \E skip \in BOOLEAN :
          /\ \A j \in 1..n : pick[j] \in DOMAIN StepChoices(j)
          /\ wf = WorkflowDef(InputChoices[i],
                              [j \in 1..n |-> StepChoices(j)[pick[j]]], skip)
          /\ built = "new"
          /\ pval = [j \in DOMAIN InputChoices[i] |-> None]
          /\ inst = [j \in 1..n |-> NoStep]

InitExtra ==
  \E i \in DOMAIN ExtraDefinitions :
    /\ wf = ExtraDefinitions[i]
    /\ built = "new"
    /\ pval = [j \in DOMAIN ExtraDefinitions[i].inputs |-> None]
    /\ inst = [j \in DOMAIN ExtraDefinitions[i].steps |-> NoStep]

\* A step class used on its own (tests/steps/test_base.py, run_step).
InitDirect ==
  /\ wf = WorkflowDef(<<>>, <<>>, FALSE)
  /\ built = "direct"
  /\ pval = <<>>
  /\ inst = <<>>

Init ==
  /\ InitWorkflow \/ InitExtra \/ InitDirect
  /\ cerr = NoError
  /\ mode = "live"
  /\ caller = "user"
  /\ run_inputs = <<>>
  /\ pc = "idle"
  /\ idx = 0
  /\ ctx = <<>>
  /\ result = <<>>
  /\ status = "SUCCESS"
  /\ exc = NoExc
  /\ executed = <<>>
  /\ processed = <<>>
  /\ caught = NoExc
  /\ external = {}
  /\ answers = <<>>
  /\ prev = NoRun
  /\ schema = [cls \in StepClasses |-> ClassSchema(cls)]

\* ------------------------------------------------------------------------
\* Construction (WorkflowDef.__init__, the pydantic validation, validate_dry_run)
\* ------------------------------------------------------------------------

\* The instance of each step after the WorkflowStep objects are built.
\* A step whose validation is skipped holds no instance until it is run.
InitialSteps(steps, skip_validation) ==
  [i \in DOMAIN steps |->
     IF StepSkip(steps[i], skip_validation) THEN NoStep
     ELSE init_input(steps[i], NoStep).step]

\* The WorkflowStep objects hold the instances steps.
StepsBuilt(steps) ==
  /\ inst' = steps
  /\ schema' = ClassAttributesAll(schema, steps, 1)

\* WorkflowDef.__init__ after the fields are validated with error e.
Constructed(e) ==
  IF e # NoError
  THEN /\ built' = "failed"
       /\ cerr' = e
       /\ UNCHANGED <<wf, pval, inst, mode, caller, run_inputs, pc, idx, ctx,
                      result, status, exc, executed, processed, caught, external,
                      answers, prev, schema>>
  ELSE IF SkipField(wf)
  THEN /\ built' = "ok"
       /\ StepsBuilt(InitialSteps(wf.steps, wf.skip_validation))
       /\ UNCHANGED <<wf, cerr, pval, mode, caller, run_inputs, pc, idx, ctx,
                      result, status, exc, executed, processed, caught, external,
                      answers, prev>>
  ELSE /\ built' = "validating"
       /\ StepsBuilt(InitialSteps(wf.steps, wf.skip_validation))
       /\ RunStart("dry", "ctor", <<>>)
       /\ UNCHANGED <<wf, cerr, pval, prev>>

Construct ==
  /\ built = "new"
  /\ Constructed(DefinitionError(wf))

\* validate_dry_run, after self.run(dry_run=True) returned or raised.
ValidateDryRunEnd ==
  /\ built = "validating"
  /\ pc \in {"returned", "raised"}
  /\ built' = IF pc = "raised" THEN "failed" ELSE "ok"
  /\ cerr' = IF pc = "raised" THEN DryRunError(exc) ELSE NoError
  /\ pc' = "idle"
  /\ UNCHANGED <<wf, pval, inst, mode, caller, run_inputs, idx, ctx, result, status,
                 exc, executed, processed, caught, external, answers, prev, schema>>

\* ------------------------------------------------------------------------
\* WorkflowDef.run
\* ------------------------------------------------------------------------

\* The run_inputs a caller passes for the declared inputs: none, or one value
\* for each of some of them.
RunInputChoices ==
  UNION {[S -> Range(RunValues)] : S \in SUBSET Names(wf.inputs)}

CallRun ==
  /\ built = "ok"
  /\ pc \in {"idle", "returned", "raised"}
  /\ \E m \in {"dry", "live"} :
       \E inputs \in RunInputChoices : RunStart(m, "user", inputs)
  /\ prev' = NoRun
  /\ UNCHANGED <<wf, built, cerr, pval, inst, schema>>

\* run called once more after it returned or raised, with the same
\* run_inputs and the same dry_run.
RunAgain ==
  /\ built = "ok"
  /\ caller = "user"
  /\ pc \in {"returned", "raised"}
  /\ prev = NoRun
  /\ prev' = [pc |-> pc, result |-> result, status |-> status, exc |-> exc,
              answers |-> answers]
  /\ RunStart(mode, "user", run_inputs)
  /\ UNCHANGED <<wf, built, cerr, pval, inst, schema>>

RECURSIVE DryFill(_, _, _)
DryFilled(params, inputs, i, d) ==
  IF d.exc # NoExc THEN [exc |-> d.exc, inputs |-> inputs]
  ELSE DryFill(params, (params[i].name :> d.value) @@ inputs, i + 1)

\* `if dry_run`: run_inputs[name] = get_dry_run_value(), input i onwards.
DryFill(params, inputs, i) ==
  IF i > Len(params) THEN [exc |-> NoExc, inputs |-> inputs]
  ELSE DryFilled(params, inputs, i, get_dry_run_value(params[i]))

InputError(loc, msg) == [loc |-> loc, msg |-> msg]

Bound(e, values, errors) == [exc |-> e, values |-> values, errors |-> errors]

\* The entries one input adds to _input_errors.
InputErrors(p, value, errors) ==
  (IF value = None /\ ~p.optional
   THEN <<InputError(p.name, "Parameter is required")>> ELSE <<>>)
  \o (IF errors # <<>> THEN <<InputError(p.name, "Invalid input value")>> ELSE <<>>)

RECURSIVE BindLoop(_, _, _, _, _)
BindValidated(params, inputs, values, errors, i, vv) ==
  IF vv.exc # NoExc THEN Bound(vv.exc, values, errors)
  ELSE BindLoop(params, inputs, values,
                errors \o InputErrors(params[i], values[i], vv.errors), i + 1)

\* _param.value = value, and what follows it in the loop body.
\* An assignment that an `after` validator rejects raises with the field
\* assigned already.
BindValue(params, inputs, values, errors, i, value) ==
  IF ParameterValidation(params[i], value) # NoExc
  THEN Bound(ParameterValidation(params[i], value),
             [values EXCEPT ![i] = AssignedValue(params[i], @, value)], errors)
  ELSE BindValidated(params, inputs, [values EXCEPT ![i] = value], errors, i,
                     value_validation(params[i], value))

\* BindLoop with run_inputs.get(name, _param.value): an input the caller
\* leaves out keeps the value it holds.
BindLoopKeep(params, inputs, values, errors, i) ==
  IF i > Len(params) THEN Bound(NoExc, values, errors)
  ELSE BindValue(params, inputs, values, errors, i,
                 IF params[i].name \in DOMAIN inputs
                 THEN inputs[params[i].name] ELSE values[i])

\* `validate the inputs`: input i onwards.
BindLoop(params, inputs, values, errors, i) ==
  IF i > Len(params) THEN Bound(NoExc, values, errors)
  ELSE BindValue(params, inputs, values, errors, i,
                 IF params[i].name \in DOMAIN inputs
                 THEN inputs[params[i].name] ELSE params[i].default)

\* {f"input.{_param.name}": _param.value for _param in self.inputs}
SeedContext(params, values) ==
  [key \in {<<"input", params[i].name>> : i \in DOMAIN params} |->
     values[CHOOSE j \in DOMAIN params : params[j].name = key[2]]]

\* run after `validate the inputs`.
InputsBound(bound) ==
  IF bound.exc # NoExc
  THEN /\ pc' = "raised"
       /\ exc' = bound.exc
       /\ pval' = bound.values
       /\ UNCHANGED <<ctx, result, status, idx>>
  ELSE IF bound.errors # <<>>
  THEN /\ pc' = "returned"
       /\ pval' = bound.values
       /\ status' = "FAILURE"
       /\ result' = <<WorkflowStepResult("input", "input", "FAILURE",
                                         bound.errors, <<>>, <<>>)>>
       /\ UNCHANGED <<ctx, exc, idx>>
  ELSE /\ pc' = IF NSteps = 0 THEN "returned" ELSE "init"
       /\ idx' = 1
       /\ pval' = bound.values
       /\ ctx' = SeedContext(wf.inputs, bound.values)
       /\ UNCHANGED <<result, status, exc>>

\* run after `if dry_run`.
InputsFilled(filled) ==
  /\ run_inputs' = filled.inputs
  /\ IF filled.exc # NoExc
     THEN /\ pc' = "raised"
          /\ exc' = filled.exc
          /\ UNCHANGED <<pval, ctx, result, status, idx>>
     ELSE InputsBound(BindLoop(wf.inputs, filled.inputs, pval, <<>>, 1))

\* run, from its first statement to the loop over the steps.
BindInputs ==
  /\ pc = "bind"
  /\ InputsFilled(IF DryRun THEN DryFill(wf.inputs, run_inputs, 1)
                  ELSE [exc |-> NoExc, inputs |-> run_inputs])
  /\ UNCHANGED <<wf, built, cerr, inst, mode, caller, executed, processed, caught,
                 external, answers, prev, schema>>

\* StepInited when init_input keeps the instance the step has already.
StepInitedKeep(r) ==
  IF r.exc # NoExc
  THEN /\ pc' = "raised"
       /\ exc' = r.exc
       /\ UNCHANGED <<inst, schema>>
  ELSE /\ pc' = "run"
       /\ inst' = [inst EXCEPT ![idx] = IF @ = NoStep THEN r.step ELSE @]
       /\ schema' = ClassAttributes(schema, r.step)
       /\ UNCHANGED exc

\* The loop of run after step.init_input() did r.
StepInited(r) ==
  IF r.exc # NoExc
  THEN /\ pc' = "raised"
       /\ exc' = r.exc
       /\ UNCHANGED <<inst, schema>>
  ELSE /\ pc' = "run"
       /\ inst' = [inst EXCEPT ![idx] = r.step]
       /\ schema' = ClassAttributes(schema, r.step)
       /\ UNCHANGED exc

\* step.init_input() in the loop of run.
StepInit ==
  /\ pc = "init"
  /\ StepInited(init_input(wf.steps[idx], inst[idx]))
  /\ UNCHANGED <<wf, built, cerr, pval, mode, caller, run_inputs, idx, ctx, result,
                 status, executed, processed, caught, external, answers, prev>>

\* StepReturned with result.insert(0, step_result).
StepReturnedFirst(res) ==
  /\ result' = <<res>> \o result
  /\ status' = IF res.status = "FAILURE" THEN "FAILURE" ELSE status
  /\ idx' = idx + 1
  /\ pc' = IF idx = NSteps THEN "returned" ELSE "init"
  /\ UNCHANGED exc

\* StepReturned with a `break` after a FAILURE.
StepReturnedBreak(res) ==
  /\ result' = Append(result, res)
  /\ status' = IF res.status = "FAILURE" THEN "FAILURE" ELSE status
  /\ idx' = idx + 1
  /\ pc' = IF idx = NSteps \/ res.status = "FAILURE" THEN "returned" ELSE "init"
  /\ UNCHANGED exc

\* StepReturned with the status of the run set from every step result.
StepReturnedLast(res) ==
  /\ result' = Append(result, res)
  /\ status' = res.status
  /\ idx' = idx + 1
  /\ pc' = IF idx = NSteps THEN "returned" ELSE "init"
  /\ UNCHANGED exc

\* result.append(step_result), the status, and the next turn of the loop or
\* the return of run.
StepReturned(res) ==
  /\ result' = Append(result, res)
  /\ status' = IF res.status = "FAILURE" THEN "FAILURE" ELSE status
  /\ idx' = idx + 1
  /\ pc' = IF idx = NSteps THEN "returned" ELSE "init"
  /\ UNCHANGED exc

\* The loop body after step.run(context, dry_run) did r; llm is what the
\* provider answers when it is called.
StepRan(r, llm) ==
  /\ inst' = [inst EXCEPT ![idx] = r.step]
  /\ schema' = ClassAttributes(schema, r.step)
  /\ answers' = IF r.external THEN Append(answers, llm) ELSE answers
  /\ ctx' = r.context
  /\ executed' = Append(executed, idx)
  /\ processed' = IF r.processed THEN Append(processed, idx) ELSE processed
  /\ caught' = r.caught
  /\ external' = IF r.external THEN external \cup {[step |-> idx, mode |-> mode]}
                 ELSE external
  /\ IF r.hang
     THEN /\ pc' = "hung"
          /\ UNCHANGED <<idx, result, status, exc>>
     ELSE IF r.exc # NoExc
     THEN /\ pc' = "raised"
          /\ exc' = r.exc
          /\ UNCHANGED <<idx, result, status>>
     ELSE StepReturned(r.res)

\* step.run(context, dry_run) and the rest of the loop body; after the last
\* step, the return of run.
StepRun ==
  /\ pc = "run"
  /\ IF inst[idx] = NoStep
     THEN /\ pc' = "raised"
          /\ exc' = Exc("RuntimeError", "Step not found")
          /\ UNCHANGED <<inst, idx, ctx, result, status, executed, processed, caught,
                         external, answers, schema>>
     ELSE \E llm \in LLMBehaviours :
            StepRan(BaseStep_run(inst[idx], ctx, DryRun, llm), llm)
  /\ UNCHANGED <<wf, built, cerr, pval, mode, caller, run_inputs, prev>>

\* ------------------------------------------------------------------------
\* A step class constructed and run on its own, with an empty context
\* ------------------------------------------------------------------------

DirectChoices ==
  << RawStep("test", "base", <<>>),
     RawStep("test", "dummy", "input" :> Hello),
     RawStep("test", "dummy", "input" :> Str(<<Ref("s1", "output")>>)),
     RawStep("test", "dummy", <<>>),
     RawStep("test", "llm", LLMInputs) >>

\* step.run(context={}, dry_run) did r.
DirectRan(m, r) ==
  /\ inst' = <<r.step>>
  /\ schema' = ClassAttributes(schema, r.step)
  /\ ctx' = r.context
  /\ executed' = <<1>>
  /\ processed' = IF r.processed THEN <<1>> ELSE <<>>
  /\ caught' = r.caught
  /\ external' = IF r.external THEN {[step |-> 1, mode |-> m]} ELSE {}
  /\ pc' = IF r.exc # NoExc THEN "raised" ELSE "returned"
  /\ exc' = r.exc
  /\ result' = IF r.exc # NoExc THEN <<>> ELSE <<r.res>>
  /\ status' = IF r.exc = NoExc /\ r.res.status = "FAILURE" THEN "FAILURE" ELSE status

\* step_class(name, **inputs) did new.
DirectNew(m, llm, new) ==
  IF new.exc # NoExc
  THEN /\ pc' = "raised"
       /\ exc' = new.exc
       /\ UNCHANGED <<inst, ctx, result, status, executed, processed, caught, external,
                      schema>>
  ELSE DirectRan(m, BaseStep_run(new.step, <<>>, m = "dry", llm))

DirectStepRun ==
  /\ built = "direct"
  /\ pc = "idle"
  /\ \E i \in DOMAIN DirectChoices, m \in {"dry", "live"}, llm \in LLMBehaviours :
       /\ mode' = m
       /\ caller' = "test"
       /\ DirectNew(m, llm, NewStep(DirectChoices[i].type, "test", DirectChoices[i].inputs))
  /\ UNCHANGED <<wf, built, cerr, pval, run_inputs, idx, answers, prev>>

Next ==
  \/ Construct
  \/ ValidateDryRunEnd
  \/ CallRun
  \/ RunAgain
  \/ BindInputs
  \/ StepInit
  \/ StepRun
  \/ DirectStepRun

Spec == Init /\ [][Next]_vars

\* ------------------------------------------------------------------------
\* Properties
\* ------------------------------------------------------------------------

Last(q) == q[Len(q)]

FirstN(n) == [i \in 1..n |-> i]

\* The run returned the synthetic result of an input error.
InputFailure ==
  pc = "returned" /\ Len(result) = 1 /\ result[1].step_name = "input"

\* C1: in WorkflowDef.run, when no workflow-input error occurs, the declared
\* steps are executed once each and in declaration order, and the result list
\* run returns has exactly one WorkflowStepResult per declared step, in that
\* same order.
C1_DeclarationOrder ==
  built # "direct" =>
    /\ executed = FirstN(Len(executed))
    /\ Len(executed) <= NSteps
    /\ ~InputFailure =>
         /\ Len(result) <= Len(executed)
         /\ \A i \in DOMAIN result :
              /\ result[i].step_name = wf.steps[i].name
              /\ result[i].step_type = ClassName(wf.steps[i].type)
    /\ (pc = "returned" /\ ~InputFailure) =>
         /\ executed = FirstN(NSteps)
         /\ Len(result) = NSteps

\* C1: a live run of two steps that returned a result for each.
C1_Witness ==
  /\ pc = "returned"
  /\ mode = "live"
  /\ NSteps = 2
  /\ executed = <<1, 2>>
  /\ Len(result) = 2
  /\ result[1].step_name = "s1"
  /\ result[2].step_name = "s2"

\* C2: in a live run, a step that ends with status FAILURE does not halt the
\* run: the loop goes on to the step declared after it, and the run returns
\* with a result entry of its own for every step declared after the failure.
C2_NoShortCircuit ==
  [][/\ (/\ pc = "run"
         /\ mode = "live"
         /\ Len(result') = Len(result) + 1
         /\ Last(result').status = "FAILURE")
        => IF idx < NSteps THEN pc' = "init" /\ idx' = idx + 1
           ELSE pc' = "returned"
     /\ (/\ pc' = "returned"
         /\ mode' = "live"
         /\ built' = "ok"
         /\ \E i \in DOMAIN result' : /\ result'[i].status = "FAILURE"
                                      /\ result'[i].step_name # "input")
        => /\ Len(result') = NSteps
           /\ executed' = FirstN(NSteps)
           /\ \A i \in 1..NSteps : result'[i].step_name = wf.steps[i].name]_vars

\* C2: a live run whose first step failed and whose second step was still
\* executed and has its entry.
C2_Witness ==
  /\ pc = "returned"
  /\ mode = "live"
  /\ built = "ok"
  /\ Len(result) = 2
  /\ result[1].status = "FAILURE"
  /\ result[2].step_name = "s2"
  /\ executed = <<1, 2>>

\* C3: the status of the WorkflowRunResult run returns is FAILURE if and only
\* if at least one entry of its result list has status FAILURE, and SUCCESS
\* otherwise.
C3_AggregateStatus ==
  (built # "direct" /\ pc = "returned") =>
    /\ status \in {"SUCCESS", "FAILURE"}
    /\ status = "FAILURE" <=> \E i \in DOMAIN result : result[i].status = "FAILURE"

\* C3: a returned run whose status is FAILURE though its last step succeeded.
C3_Witness ==
  /\ built = "ok"
  /\ pc = "returned"
  /\ status = "FAILURE"
  /\ Len(result) = 2
  /\ result[1].status = "FAILURE"
  /\ result[2].status = "SUCCESS"

\* C4: in live mode, an exception raised while a step resolves its inputs or
\* executes process (the unimplemented process of the base step included) is
\* not raised to the caller of BaseStep.run: run returns a result with status
\* FAILURE whose outputs are the single parameter `error` carrying str(e).
C4_LiveFailureResult ==
  (mode = "live" /\ caught # NoExc) =>
    /\ Len(executed) > 0
    /\ Len(result) = Len(executed)
    /\ Last(result).status = "FAILURE"
    /\ Last(result).outputs = <<NameValue("error", ExcStr(caught))>>
    /\ Last(result).step_name = inst[Len(executed)].name

\* C4: BaseStep("test").run(context={}) returned the FAILURE result of the
\* NotImplementedError of its process.
C4_Witness ==
  /\ built = "direct"
  /\ mode = "live"
  /\ pc = "returned"
  /\ caught.kind = "NotImplementedError"
  /\ processed = <<1>>
  /\ result[1].outputs = <<NameValue("error", Str(<<>>))>>

\* C5: in dry-run mode, an exception raised while a step resolves its inputs
\* or executes process is raised again to the caller of run; it is never made
\* a FAILURE step result, and the dry run returns no run result.
C5_DryRunReraises ==
  (mode = "dry" /\ caught # NoExc) =>
    /\ exc = caught
    /\ \/ pc = "raised"
       \/ built = "failed" /\ pc = "idle" /\ cerr = DryRunError(caught)
    /\ Len(result) = Len(executed) - 1
    /\ \A i \in DOMAIN result : result[i].status # "FAILURE"

\* C5: a dry run whose second step raised a reference error to the caller,
\* the result of the first step notwithstanding.
C5_Witness ==
  /\ mode = "dry"
  /\ pc = "raised"
  /\ executed = <<1, 2>>
  /\ Len(result) = 1
  /\ caught.kind = "ValueReferenceError"
  /\ exc = caught

\* The keys a step instance publishes in a dry run: its inputs that have a
\* value and its outputs.
StepKeys(step) ==
  {<<step.name, k>> : k \in {j \in DOMAIN step.inputs : step.inputs[j] # None}}
  \cup {<<step.name, o>> : o \in Range(step.outputs)}

\* The keys of the context when step i of definition w starts to run.
ContextBefore(w, i) ==
  {<<"input", w.inputs[j].name>> : j \in DOMAIN w.inputs}
  \cup UNION {StepKeys(init_input(w.steps[j], NoStep).step) : j \in 1..(i - 1)}

\* The position of input k among the declared inputs of raw step `raw`; an
\* input the step type does not declare comes after them all.
InputPos(raw, k) ==
  IF k \in Names(input_parameters(raw.type))
  THEN CHOOSE j \in DOMAIN input_parameters(raw.type) :
         input_parameters(raw.type)[j].name = k
  ELSE Len(input_parameters(raw.type)) + 1

\* The keys of the context when input k of step i is resolved: those before
\* the step, and the inputs of the step resolved before k.
ContextAt(w, i, k) ==
  ContextBefore(w, i)
  \cup {key \in StepKeys(init_input(w.steps[i], NoStep).step) :
          /\ key[2] \in Names(input_parameters(w.steps[i].type))
          /\ InputPos(w.steps[i], key[2]) < InputPos(w.steps[i], k)}

\* The tokens of value v whose key is not among `keys`, by position.
DanglingAt(v, keys) ==
  IF v.t # "str" THEN {}
  ELSE {j \in DOMAIN v.s : v.s[j].k = "ref" /\ <<v.s[j].a, v.s[j].b>> \notin keys}

\* The inputs of step i that hold a token whose key the context lacks when
\* the input is resolved.
DanglingInputs(w, i) ==
  {k \in DOMAIN w.steps[i].inputs :
     DanglingAt(w.steps[i].inputs[k], ContextAt(w, i, k)) # {}}

\* The same, the output_names of an LLM step aside.
DanglingResolved(w, i) ==
  {k \in DanglingInputs(w, i) : ~(w.steps[i].type = "llm" /\ k = "output_names")}

\* The reference error for the first dangling token of step i.
FirstDangling(w, i) ==
  LET k == CHOOSE k \in DanglingResolved(w, i) :
             \A j \in DanglingResolved(w, i) :
               InputPos(w.steps[i], k) <= InputPos(w.steps[i], j)
      v == w.steps[i].inputs[k]
      t == v.s[Min(DanglingAt(v, ContextAt(w, i, k)))]
  IN [kind |-> "value_reference_error", step |-> w.steps[i].name,
      key |-> <<t.a, t.b>>, avail |-> ContextAt(w, i, k), what |-> ""]

\* Every workflow input has a dry-run value.
DryRunnable(w) ==
  \A j \in DOMAIN w.inputs : w.inputs[j].data_type \in {"STRING", "NUMBER", "BOOLEAN"}

RunValue(p) == IF p.name \in DOMAIN run_inputs THEN run_inputs[p.name] ELSE p.default

\* A live run a user called on a constructed definition, past input binding.
LiveRun ==
  built = "ok" /\ caller = "user" /\ mode = "live" /\ pc \notin {"idle", "bind"}

\* C7: for a WorkflowDef that passed the dry-run validation of construction,
\* a live run whose inputs are accepted and in which no step's process raises
\* publishes the context keys of the dry run, so none of its steps fails with
\* a reference error.
C7_SameContextKeys ==
  (/\ LiveRun
   /\ Validated(wf)
   /\ ~InputFailure
   /\ \A i \in 1..(Len(result) - 1) : result[i].status = "SUCCESS")
  => /\ caught.kind # "ValueReferenceError"
     /\ (pc = "returned" /\ status = "SUCCESS")
        => DOMAIN ctx = ContextBefore(wf, NSteps + 1)

\* C8: a run with a workflow input that is not READ_WRITE and a run value
\* other than its default returns status FAILURE with a reason that cites the
\* immutable parameter, and executes no step.
C8_ImmutableInput ==
  (/\ LiveRun
   /\ \E i \in DOMAIN wf.inputs : /\ wf.inputs[i].user_permission # "READ_WRITE"
                                  /\ RunValue(wf.inputs[i]) # wf.inputs[i].default)
  => /\ executed = <<>>
     /\ pc = "returned"
        => /\ status = "FAILURE"
           /\ Len(result) = 1
           /\ \E j \in DOMAIN result[1].status_reason :
                result[1].status_reason[j].msg = "Parameter is immutable"

\* A value that does not match the declared data type of input p.
TypeMismatch(p, v) ==
  /\ v # None
  /\ \/ p.data_type = "STRING" /\ v.t # "str"
     \/ p.data_type = "NUMBER" /\ v.t \notin {"int", "bool"} /\ ~FloatParses(v)

\* C9: when a workflow input fails input binding (a required input left
\* null, or a value that does not match the declared data type), run returns
\* status FAILURE with exactly one synthetic step result named input; no
\* declared step is initialised or executed and no context is written.
C9_InputFailure ==
  (/\ LiveRun
   /\ \E i \in DOMAIN wf.inputs :
        \/ RunValue(wf.inputs[i]) = None /\ ~wf.inputs[i].optional
        \/ TypeMismatch(wf.inputs[i], RunValue(wf.inputs[i])))
  => /\ pc = "returned"
     /\ status = "FAILURE"
     /\ Len(result) = 1
     /\ result[1].step_name = "input"
     /\ result[1].status = "FAILURE"
     /\ executed = <<>>
     /\ ctx = <<>>

\* C10: a live call of run on a constructed WorkflowDef never raises to its
\* caller, whatever the run inputs: every failure is a FAILURE entry of the
\* result it returns.
C10_LiveRunNeverRaises ==
  LiveRun => /\ pc # "raised"
             /\ exc = NoExc


\* ------------------------------------------------------------------------
\* Repeated runs, dry runs and the state they leave
\* ------------------------------------------------------------------------

IsPrefix(a, b) == Len(a) <= Len(b) /\ a = SubSeq(b, 1, Len(a))

Done == pc \in {"returned", "raised"}

\* C11: a run that repeats the previous run, with the same run_inputs, the
\* same dry_run and a provider that answers as before, ends as the previous
\* run did, with the same step results (status, inputs, outputs) and the same
\* run status; its context starts as the seed of the workflow inputs alone,
\* and every step it runs is an instance created for it.
C11_Idempotent ==
  prev # NoRun =>
    /\ (pc = "init" /\ idx = 1) => ctx = SeedContext(wf.inputs, pval)
    /\ pc = "run" => inst[idx] = init_input(wf.steps[idx], NoStep).step
    /\ pc = "hung" => ~IsPrefix(answers, prev.answers)
    /\ (Done /\ answers = prev.answers) =>
         /\ pc = prev.pc
         /\ result = prev.result
         /\ status = prev.status
         /\ exc = prev.exc

\* A live run of two steps, the first answered by the provider, repeated.
C11_Witness ==
  /\ prev # NoRun
  /\ pc = "returned"
  /\ mode = "live"
  /\ answers # <<>>
  /\ answers = prev.answers
  /\ Len(result) = 2
  /\ result[2].status = "SUCCESS"

\* A value a dry run makes up: the dry-run value of a STRING or NUMBER
\* parameter, or a text holding it or the dry-run result of an LLM step.
\* (No caller of the model passes "dummy" or 0.)
IsPlaceholder(v) ==
  \/ v = PyInt("0")
  \/ \E i \in DOMAIN v.s : v.s[i] \in {Lit("dummy"), Lit("This is the ")}

\* The steps of the current run that were initialised for it.
StepsOfRun == Range(executed) \cup (IF pc = "run" THEN {idx} ELSE {})

\* C12: in a live run called by a user, whatever dry runs came before (the
\* one of construction, earlier dry runs of a user), no workflow-input value,
\* no context entry, no input or output value of a step of the run and no
\* value of a step result is a dry-run placeholder.
C12_NoPlaceholder ==
  LiveRun =>
    /\ \A i \in DOMAIN pval : ~IsPlaceholder(pval[i])
    /\ \A k \in DOMAIN ctx : ~IsPlaceholder(ctx[k])
    /\ \A j \in StepsOfRun :
         /\ \A k \in DOMAIN inst[j].inputs : ~IsPlaceholder(inst[j].inputs[k])
         /\ \A k \in DOMAIN inst[j].ovals : ~IsPlaceholder(inst[j].ovals[k])
    /\ \A i \in DOMAIN result :
         /\ \A k \in DOMAIN result[i].inputs : ~IsPlaceholder(result[i].inputs[k].value)
         /\ \A k \in DOMAIN result[i].outputs : ~IsPlaceholder(result[i].outputs[k].value)

\* A live run of a validated definition (whose construction ran the dry run
\* with the input x bound to "dummy") whose second step refers to input x.
C12_Witness ==
  /\ LiveRun
  /\ Validated(wf)
  /\ pc = "returned"
  /\ Len(result) = 2
  /\ result[1].step_type = "LLMStep"
  /\ wf.steps[2].inputs = ("input" :> Str(<<Lit("got "), Ref("input", "x")>>))
  /\ result[2].status = "SUCCESS"

\* C13: right after a construction that succeeded, with the dry run or with
\* the dry run bypassed, every workflow InputParameter holds no value, as it
\* does when the dry run is bypassed.
C13_ConstructionFrame ==
  (built = "ok" /\ pc = "idle") => \A i \in DOMAIN pval : pval[i] = None

\* C14: no step calls the provider in a dry run, that of construction
\* included: a dry run records no provider call, and no recorded call was
\* made in dry-run mode.
C14_DryRunNoExternal ==
  /\ mode = "dry" => external = {} /\ answers = <<>>
  /\ \A e \in external : e.mode # "dry"

\* A dry run (of construction, of a user, of a step on its own) in which the
\* process of an LLM step was invoked.
C14_Witness ==
  /\ mode = "dry"
  /\ processed # <<>>
  /\ \E j \in Range(processed) : inst[j].cls = "llm"

C16_FillTerminates == pc # "hung"

\* C17: a reference error is raised only for a key the context lacks (a key
\* the context holds is substituted); the error carries the name of the step
\* being resolved, the unresolved key and exactly the keys the context holds
\* when it is raised.
C17_ReferenceError ==
  (caught.kind = "ValueReferenceError" /\ built # "direct") =>
    /\ caught.key \notin DOMAIN ctx
    /\ caught.avail = DOMAIN ctx
    /\ caught.step = wf.steps[Last(executed)].name

\* The raw input `input` of a step is exactly one reference token.
RefInput(raw) ==
  /\ "input" \in DOMAIN raw.inputs
  /\ raw.inputs["input"].t = "str"
  /\ Len(raw.inputs["input"].s) = 1
  /\ raw.inputs["input"].s[1].k = "ref"

RefKey(raw) == <<raw.inputs["input"].s[1].a, raw.inputs["input"].s[1].b>>

\* Step i of the run succeeded and published a value under key.
Published(i, key) ==
  /\ wf.steps[i].name = key[1]
  /\ result[i].status = "SUCCESS"
  /\ key[2] \in DOMAIN inst[i].ovals
  /\ inst[i].ovals[key[2]] # None

\* Step j, named name, returned with its input bound to str(x) and published.
PassedTo(j, name, x) ==
  /\ Len(result) = j
  /\ result[j].status = "SUCCESS"
  /\ j \in Range(processed)
  /\ inst[j].inputs["input"] = PyStr(x)
  /\ result[j].inputs = <<NameValue("input", PyStr(x))>>
  /\ <<name, "input">> \in DOMAIN ctx
  /\ ctx[<<name, "input">>] = PyStr(x)

ValuePassed(j, key) ==
  (/\ key[1] # wf.steps[j].name
   /\ \E i \in 1..(j - 1) : Published(i, key))
  => /\ key \in DOMAIN ctx
     /\ PassedTo(j, wf.steps[j].name, ctx[key])

C19_WriteOnce ==
  (Validated(wf) /\ built = "ok" /\ caller = "user") =>
    \A j \in StepsOfRun : inst[j].rewrote = {}

\* The entries of a context under the step name `input`.
InputNamespace(context) ==
  [key \in {k \in DOMAIN context : k[1] = "input"} |-> context[key]]

\* C20: a definition with a step named `input` is never constructed, and from
\* the moment a run has seeded its context until it ends the entries under
\* `input` are the seeded ones: the value of each workflow input, no entry
\* more, none less and none changed.
C20_InputNamespace ==
  /\ (\E j \in DOMAIN wf.steps : wf.steps[j].name = "input")
       => built \in {"new", "failed"}
  /\ (built \in {"validating", "ok"} /\ idx >= 1)
       => InputNamespace(ctx) = SeedContext(wf.inputs, pval)

\* ------------------------------------------------------------------------
\* Properties: rejected definitions, parameters, outputs, order of a step run
\* ------------------------------------------------------------------------

\* Construction of the definition has ended.
Ended == built \in {"ok", "failed"}

\* C21: constructing a WorkflowDef from a definition in which some step
\* carries a field other than name, type and inputs is rejected with a
\* validation error.
C21_StepFieldRejected ==
  (Ended /\ \E i \in DOMAIN wf.steps : wf.steps[i].fields # {})
  => built = "failed" /\ cerr # NoError

\* C22: constructing a WorkflowDef from a definition with a top-level field
\* other than name, description, inputs, steps and layout_attributes is
\* rejected before any step is constructed and before the dry run; no field
\* of the definition switches validation off.  The definitions constructed
\* with the argument skip_validation are left aside.
C22_TopFieldRejected ==
  (Ended /\ ~wf.skip_validation /\ wf.fields # {})
  => /\ built = "failed"
     /\ cerr # NoError
     /\ \A i \in DOMAIN inst : inst[i] = NoStep
     /\ executed = <<>>

\* The raw inputs of a step supply every non-optional declared input of its
\* type and no name the type does not declare.
InputsMatch(raw) ==
  /\ \A j \in DOMAIN input_parameters(raw.type) :
       input_parameters(raw.type)[j].optional
       \/ input_parameters(raw.type)[j].name \in DOMAIN raw.inputs
  /\ DOMAIN raw.inputs \subseteq Names(input_parameters(raw.type))

\* C23: constructing a WorkflowStep is rejected when its raw inputs omit a
\* non-optional declared input of the step type or hold a name the type does
\* not declare: every accepted WorkflowStep supplies all non-optional
\* declared inputs and no undeclared one.  The definitions constructed with
\* the argument skip_validation are left aside.
C23_InputsMatchSchema ==
  (Ended /\ ~wf.skip_validation /\ \E i \in DOMAIN wf.steps : ~InputsMatch(wf.steps[i]))
  => built = "failed" /\ cerr # NoError

\* C24: a WorkflowStep whose type is no alias of the step registry is
\* rejected at construction, with and without skip_validation; in every run
\* the step the loop is at holds an instance of a registered step class when
\* WorkflowStep.run is called, which never raises `Step not found`.
C24_RegisteredType ==
  /\ (Ended /\ \E i \in DOMAIN wf.steps : wf.steps[i].type \notin registered_steps)
     => built = "failed" /\ cerr # NoError
  /\ (built \in {"ok", "validating"} /\ pc = "run")
     => inst[idx] # NoStep /\ inst[idx].cls \in registered_steps
  /\ exc.kind # "RuntimeError"

\* C24: a definition with a step of the unregistered type nope, constructed
\* with skip_validation, was rejected for the type.
C24_Witness ==
  /\ built = "failed"
  /\ wf.skip_validation
  /\ wf.steps # <<>>
  /\ wf.steps[1].type = "nope"
  /\ cerr = SchemaError("invalid_step_type", "s1", "nope")

\* The output_names of an LLM step of a definition name one of its inputs.
Collides(raw) ==
  /\ raw.type = "llm"
  /\ "output_names" \in DOMAIN raw.inputs
  /\ raw.inputs["output_names"].t = "str"
  /\ raw.inputs["output_names"].s # <<>>
  /\ Range(SplitNames(raw.inputs["output_names"].s))
       \cap Names(input_parameters("llm")) # {}

\* C25: no name is a key of both the inputs and the outputs of a step
\* instance, dynamically named outputs included; a step whose output_names
\* name one of its inputs never gets an instance: its construction raises,
\* which fails the construction of the definition or the run that
\* initialises the step.
C25_NoCollision ==
  /\ \A i \in DOMAIN inst :
       inst[i] # NoStep => DOMAIN inst[i].inputs \cap Range(inst[i].outputs) = {}
  /\ \A i \in DOMAIN wf.steps :
       Collides(wf.steps[i])
       => /\ inst[i] = NoStep
          /\ built = "ok" => ~Validated(wf)
          /\ idx = i => pc \in {"init", "raised"}

\* C25: the construction of a definition whose LLM step has output_names
\* `prompt` failed with the error of the step class.
C25_Witness ==
  /\ built = "failed"
  /\ wf.steps # <<>>
  /\ Collides(wf.steps[1])
  /\ cerr = SchemaError("step_init", "s1", "Duplicate parameter name")

\* The step whose BaseStep.run was entered last.
LastStep == executed[Len(executed)]

\* The names of a sequence of name/value pairs.
NamesOf(nvs) == {nvs[i].name : i \in DOMAIN nvs}

\* The last step of the run is an LLM step whose process, in a live run,
\* returned a key the instance does not declare as an output: `extra` beside
\* the first of several outputs, or `result` for a single dynamic output.
\* The value is the key.
UndeclaredKey ==
  IF /\ built = "ok"
     /\ executed # <<>>
     /\ Len(result) = Len(executed)
     /\ [step |-> LastStep, mode |-> "live"] \in external
     /\ answers # <<>>
  THEN IF answers[Len(answers)] = "json_some" /\ Len(inst[LastStep].outputs) > 1
       THEN "extra"
       ELSE IF /\ answers[Len(answers)] # "raise"
               /\ Len(inst[LastStep].outputs) = 1
               /\ inst[LastStep].outputs # <<"result">>
       THEN "result"
       ELSE ""
  ELSE ""

\* A step was run: BaseStep.run was entered once more.
StepWasRun == executed' # <<>> /\ executed' # executed

\* The keys one run of a step adds to the context are keys of its own
\* context dict, its inputs and its declared outputs.
AddsDeclaredOnly ==
  StepWasRun
  => \A key \in DOMAIN ctx' \ DOMAIN ctx :
       \/ key \in DOMAIN inst'[LastStep'].context.items
       \/ /\ key[1] = inst'[LastStep'].name
          /\ key[2] \in DOMAIN inst'[LastStep'].inputs
                        \cup Range(inst'[LastStep'].outputs)

\* The step result of a step whose process returned an undeclared key has
\* status SUCCESS and does not list the key, which is not in the context;
\* every SUCCESS result lists declared outputs only.
DropsUndeclared ==
  /\ UndeclaredKey # ""
     => /\ result[Len(result)].status = "SUCCESS"
        /\ UndeclaredKey \notin NamesOf(result[Len(result)].outputs)
        /\ <<inst[LastStep].name, UndeclaredKey>> \notin DOMAIN ctx
  /\ \A i \in DOMAIN result :
       (result[i].status = "SUCCESS" /\ i \in DOMAIN inst)
       => NamesOf(result[i].outputs) \subseteq Range(inst[i].outputs)

\* C26: a key process returns that is no declared output of the step
\* instance is dropped: the step result has status SUCCESS and lists declared
\* outputs only, and the run of the step publishes no key of process other
\* than the declared outputs.
C26_UndeclaredDropped == []DropsUndeclared /\ [][AddsDeclaredOnly]_vars

\* C26: the provider answered an LLM step with the outputs summary and
\* keywords with the keys summary and extra; the step succeeded with the one
\* output summary.
C26_Witness ==
  /\ UndeclaredKey = "extra"
  /\ pc = "returned"
  /\ NamesOf(result[Len(result)].outputs) = {"summary"}
  /\ <<"s1", "summary">> \in DOMAIN ctx

\* C27: every constructed Parameter of data type OPTION has a non-empty
\* choice set, and its default and its value, when set, are members of it,
\* after construction and after every later assignment: an assignment of a
\* value outside the choices fails and leaves the value unchanged.
C27_OptionMembership ==
  built \in {"validating", "ok"}
  => \A i \in DOMAIN wf.inputs :
       wf.inputs[i].data_type = "OPTION"
       => /\ wf.inputs[i].choices # {}
          /\ wf.inputs[i].default = None \/ wf.inputs[i].default \in wf.inputs[i].choices
          /\ pval[i] = None \/ pval[i] \in wf.inputs[i].choices

\* C28: constructing an InputParameter whose user_permission is READ_ONLY or
\* NO_ACCESS without a default value fails, with and without
\* skip_validation, so every workflow input of a constructed definition that
\* is not READ_WRITE carries a default value.
C28_DefaultForNonWritable ==
  /\ (Ended /\ \E i \in DOMAIN wf.inputs :
                 /\ wf.inputs[i].user_permission # "READ_WRITE"
                 /\ wf.inputs[i].default = None)
     => built = "failed" /\ cerr # NoError
  /\ built \in {"validating", "ok"}
     => \A i \in DOMAIN wf.inputs :
          wf.inputs[i].user_permission # "READ_WRITE" => wf.inputs[i].default # None

\* C28: the construction of a definition with a NO_ACCESS input without a
\* default failed for that input, although skip_validation was passed.
C28_Witness ==
  /\ built = "failed"
  /\ wf.skip_validation
  /\ wf.inputs # <<>>
  /\ wf.inputs[1].user_permission = "NO_ACCESS"
  /\ wf.inputs[1].default = None
  /\ cerr = SchemaError("invalid_parameter", "x",
                        "Default value is required for non-writable input")

\* C29: in every dry run of a definition that passes the schema checks, the
\* assertion of get_dry_run_value holds: it is never invoked on a parameter
\* whose data type is other than STRING, NUMBER or BOOLEAN.
C29_PlaceholderDefined ==
  (DefinitionError(wf) = NoError /\ mode = "dry") => exc.kind # "AssertionError"

\* The value holds no reference token.
IsResolved(v) == v.t # "str" \/ \A j \in DOMAIN v.s : v.s[j].k # "ref"

\* Input k of the step instance has a value, resolved and published under
\* the step's name in context c.
ResolvedAndPublished(step, k, c) ==
  step.inputs[k] # None
  => /\ IsResolved(step.inputs[k])
     /\ <<step.name, k>> \in DOMAIN c
     /\ c[<<step.name, k>>] = step.inputs[k]

\* The positions of the declared inputs of the step instance that still hold
\* a reference token.
Unresolved(step) ==
  {j \in DOMAIN input_parameters(step.cls) :
     ~IsResolved(step.inputs[input_parameters(step.cls)[j].name])}

\* One run of a step invokes process only with every non-null input resolved
\* and published.
ProcessAfterInputs ==
  (StepWasRun /\ processed' # processed)
  => \A k \in DOMAIN inst'[LastStep'].inputs :
       ResolvedAndPublished(inst'[LastStep'], k, ctx')

\* One run of a step in which an input raised a reference error does not
\* invoke process and adds no output of the step to the context; the inputs
\* before the failing one are resolved and published, and the context holds
\* the keys it held at the failure.
ReferenceErrorStops ==
  (StepWasRun /\ caught'.kind = "ValueReferenceError")
  => /\ processed' = processed
     /\ \A o \in Range(inst'[LastStep'].outputs) :
          <<inst'[LastStep'].name, o>> \notin DOMAIN ctx' \ DOMAIN ctx
     /\ Unresolved(inst'[LastStep']) # {}
     /\ \A j \in 1..(Min(Unresolved(inst'[LastStep'])) - 1) :
          ResolvedAndPublished(inst'[LastStep'],
                               input_parameters(inst'[LastStep'].cls)[j].name, ctx')
     /\ DOMAIN ctx' = caught'.avail

\* C30: BaseStep.run invokes process only after every non-null input of the
\* step is resolved and published to the context; when resolving an input
\* raises a reference error, process is not invoked for the step, no output
\* of the step is added to the context, and the inputs resolved before the
\* failure stay published.
C30_ProcessAfterInputs == [][ProcessAfterInputs /\ ReferenceErrorStops]_vars

\* C30: a live run of an LLM step whose system_message refers to the missing
\* key s9.nope failed without invoking process; prompt, model and
\* chat_history are published, no output is.
C30_Witness ==
  /\ pc = "returned"
  /\ mode = "live"
  /\ status = "FAILURE"
  /\ executed = <<1>>
  /\ processed = <<>>
  /\ caught.kind = "ValueReferenceError"
  /\ caught.key = <<"s9", "nope">>
  /\ DOMAIN ctx = {<<"s1", "prompt">>, <<"s1", "model">>, <<"s1", "chat_history">>}

\* ------------------------------------------------------------------------
\* Properties: fill_value against one pass over the segments, run_inputs
\* ------------------------------------------------------------------------

\* Every key a token of value v refers to holds a value in context c.
AllPresent(v, c) ==
  \A j \in DOMAIN v.s :
    v.s[j].k = "ref" => CtxGet(c, <<v.s[j].a, v.s[j].b>>) # None

\* One pass, left to right, over the literal and reference segments of the
\* text: a reference segment becomes the stringified context value.
RECURSIVE SinglePass(_, _)
SinglePass(atoms, c) ==
  IF atoms = <<>> THEN <<>>
  ELSE (IF Head(atoms).k = "ref"
        THEN PyStr(c[<<Head(atoms).a, Head(atoms).b>>]).s
        ELSE <<Head(atoms)>>)
       \o SinglePass(Tail(atoms), c)

\* fill_value returned for value v and context c what the single pass does.
FillAgrees(v, c, r) ==
  (v.t = "str" /\ AllPresent(v, c) /\ ~r.hang)
  => r.exc = NoExc /\ r.value = Str(SinglePass(v.s, c))

\* C31: for every input string and context that holds all the keys the
\* string refers to, fill_value returns the string a single left-to-right
\* pass over the literal and reference segments returns.  The strings and
\* contexts are those of the steps about to run; the calls in which the loop
\* of fill_value does not end are left aside.
C31_SinglePass ==
  (pc = "run" /\ inst[idx] # NoStep)
  => \A k \in DOMAIN inst[idx].inputs :
       FillAgrees(inst[idx].inputs[k], ctx,
                  fill_value(inst[idx].inputs[k], ctx, inst[idx].name))

\* C32: WorkflowDef.run leaves the map of run inputs its caller passed
\* unchanged, in a live run and in a dry run: no statement of run, from its
\* first to the binding of the inputs, changes a non-empty map a user passed.
C32_RunInputsFrame ==
  [][(pc = "bind" /\ caller = "user" /\ run_inputs # <<>>)
     => run_inputs' = run_inputs]_vars
====
